---------------------------- MODULE Spec2Model ----------------------------
(***************************************************************************)
(* A model of pdfannots.py: the geometric matcher (boxhit, testboxes), the *)
(* per-annotation text accretion (Annotation.capture / gettext), the page  *)
(* walk of RectExtractor.render, the position order Pos.__lt__ and the     *)
(* outline lookup PrettyPrinter.nearest_outline.                           *)
(*                                                                         *)
(* Strings are sequences of one-character strings and rectangles are       *)
(* tuples <<x0, y0, x1, y1>> of integers.  Python's None is the value None *)
(* where a list of boxes is expected and NoneText where a string is.       *)
(***************************************************************************)
EXTENDS Integers, Sequences, FiniteSets, TLC

VARIABLES
    boxes,      \* Annotation.boxes of every annotation of the page
    text,       \* Annotation.text of every annotation
    annots,     \* RectExtractor.annots
    lasthit,    \* RectExtractor._lasthit
    curline,    \* RectExtractor._curline
    item,       \* the item (or call) handled by the last step
    hits,       \* what the last call of testboxes returned
    steps,      \* number of items handled so far
    gotText,    \* history: annotations that captured text since the last line break event
    called,     \* history: annotations whose capture the last step called
    touched,    \* history: annotations a Region of which overlapped an item of the page
    cols,       \* COLUMNS_PER_PAGE
    pa, pb, pc, \* three Pos objects of the document
    lt,         \* what the last pa < pb returned
    outlines,   \* PrettyPrinter.outlines, each entry by its pos
    found,      \* what nearest_outline(pa) returned: an index of outlines, 0 for None, -1 before the call
    contents,   \* Annotation.contents of every annotation of the page
    fmt,        \* the annotation of the last format_annot call and how the call ended
    pagerange,  \* process_file's pagerange: page numbers from 1, empty for all pages
    pdfannots,  \* the annotation records of every page of the document
    pageannots, \* Page.annots of every page
    allannots,  \* process_file's allannots
    nextpage,   \* the pageno process_file's loop reaches next
    status      \* process_file: "running", "returned", or the exception it raised

rvars == <<boxes, text, annots, lasthit, curline, item, hits, steps, gotText, called, touched>>

pvars == <<cols, pa, pb, pc, lt, outlines, found>>

dvars == <<contents, fmt, pagerange, pdfannots, pageannots, allannots, nextpage, status>>

vars == <<rvars, pvars, dvars>>

----------------------------------------------------------------------------
(* Bounds of the model *)

MaxLen == 4         \* longest text buffer built by direct calls of capture

MaxBoxes == 2       \* most Regions of one annotation

MaxCols == 3        \* largest number of columns per page

MaxOutlines == 2    \* most entries of the outline list

----------------------------------------------------------------------------
(* Values *)

None == << <<>> >>

NoneText == <<"None">>

NoPos == [page |-> -1, x |-> 0, y |-> 0]

NL == <<"\n">>

\* the ligature ff, a key of SUBSTITUTIONS, named by its code point
LigFF == "U+FB00"

Annots == {"a1", "a2"}

IdleItem(k) == [kind |-> k, rect |-> <<>>, text |-> <<>>]

\* no position compared, no outline looked up
PosIdle ==
    /\ cols = 1
    /\ pa = NoPos
    /\ pb = NoPos
    /\ pc = NoPos
    /\ lt = "None"
    /\ outlines = <<>>
    /\ found = -1

\* no comment, nothing formatted, no file processed
DocIdle ==
    /\ contents = [a \in Annots |-> NoneText]
    /\ fmt = [annot |-> "None", result |-> "None"]
    /\ pagerange = {}
    /\ pdfannots = <<>>
    /\ pageannots = <<>>
    /\ allannots = <<>>
    /\ nextpage = 0
    /\ status = "None"

\* nothing set, nothing rendered
RenderIdle ==
    /\ annots = {}
    /\ lasthit = {}
    /\ curline = {}
    /\ hits = {}
    /\ gotText = {}
    /\ called = {}
    /\ touched = {}

----------------------------------------------------------------------------
(* boxhit, RectExtractor.setannots and RectExtractor.testboxes *)

Max(a, b) == IF a >= b THEN a ELSE b

Min(a, b) == IF a <= b THEN a ELSE b

\* a matcher that asks for most of the box to be covered by the item
boxhitReverse(it, box) ==
    LET x_overlap == Max(0, Min(it[3], box[3]) - Max(it[1], box[1]))
        y_overlap == Max(0, Min(it[4], box[4]) - Max(it[2], box[2]))
        overlap_area == x_overlap * y_overlap
        box_area == (box[3] - box[1]) * (box[4] - box[2])
    IN  IF box_area = 0 THEN FALSE ELSE 2 * overlap_area >= box_area

\* boxhit(item, box): overlap_area >= 0.5 * item_area, on integers
boxhit(it, box) ==
    LET x_overlap == Max(0, Min(it[3], box[3]) - Max(it[1], box[1]))
        y_overlap == Max(0, Min(it[4], box[4]) - Max(it[2], box[2]))
        overlap_area == x_overlap * y_overlap
        item_area == (it[3] - it[1]) * (it[4] - it[2])
    IN  IF item_area = 0 THEN FALSE ELSE 2 * overlap_area >= item_area

\* the truth value of a.boxes: neither None nor the empty list
HasBoxes(b) == b # None /\ b # <<>>

\* the set setannots keeps
LiveAnnots == {a \in Annots : HasBoxes(boxes[a])}

\* the frozenset testboxes computes for an item with rectangle r
TestBoxes(r) == {a \in annots : \E i \in 1..Len(boxes[a]) : boxhit(r, boxes[a][i])}

----------------------------------------------------------------------------
(* The matcher alone: setannots, then testboxes on one item *)

XS == 0..3

YS == 0..1

Rects == {r \in XS \X YS \X XS \X YS : r[1] <= r[3] /\ r[2] <= r[4]}

\* the Regions the first annotation draws from
Regions == {r \in Rects : r[1] # 1 /\ r[3] # 1}

BoxLists(S, n) == UNION {[1..k -> S] : k \in 0..n}

InitMatch ==
    /\ \E b1 \in BoxLists(Regions, MaxBoxes) \cup {None},
          b2 \in {None, <<>>, << <<1, 0, 3, 1>> >>} :
            boxes = [a \in Annots |-> IF a = "a1" THEN b1 ELSE b2]
    /\ text = [a \in Annots |-> <<>>]
    /\ item = IdleItem("none")
    /\ steps = 0
    /\ RenderIdle
    /\ PosIdle
    /\ DocIdle

\* device.setannots(page.annots)
SetAnnots ==
    /\ item.kind = "none"
    /\ annots' = LiveAnnots
    /\ item' = IdleItem("setannots")
    /\ UNCHANGED <<boxes, text, lasthit, curline, hits, steps, gotText, called, touched, pvars, dvars>>

\* self.testboxes(item) for an item with rectangle r
CallTestBoxes(r) ==
    /\ item.kind = "setannots"
    /\ hits' = TestBoxes(r)
    /\ lasthit' = TestBoxes(r)
    /\ curline' = curline \cup TestBoxes(r)
    /\ item' = [kind |-> "testboxes", rect |-> r, text |-> <<>>]
    /\ UNCHANGED <<boxes, text, annots, steps, gotText, called, touched, pvars, dvars>>

NextMatch ==
    \/ SetAnnots
    \/ \E r \in Rects : CallTestBoxes(r)

SpecMatch == InitMatch /\ [][NextMatch]_vars

\* the unit cells a rectangle covers: their number is its area
Cells(r) == {c \in XS \X YS : r[1] <= c[1] /\ c[1] + 1 <= r[3] /\ r[2] <= c[2] /\ c[2] + 1 <= r[4]}

Accepts(f, r) == 2 * Cardinality(Cells(f) \cap Cells(r)) >= Cardinality(Cells(f))

\* C1: testboxes returns exactly the annotations with at least one Region r
\* such that area(f /\ r) >= 0.5 * area(f); a fragment of zero area matches
\* no annotation, a Region of zero area accepts no fragment, and an
\* annotation without Regions is never returned.
C1_Matcher ==
    item.kind = "testboxes" =>
        LET f == item.rect
        IN  /\ Cells(f) # {} =>
                hits = {a \in Annots : /\ boxes[a] # None
                                       /\ \E i \in 1..Len(boxes[a]) : Accepts(f, boxes[a][i])}
            /\ Cells(f) = {} => hits = {}
            /\ \A a \in hits : \E i \in 1..Len(boxes[a]) :
                    Cells(boxes[a][i]) # {} /\ Accepts(f, boxes[a][i])
            /\ \A a \in Annots : ~HasBoxes(boxes[a]) => a \notin hits

\* a fragment exactly half covered by the second Region of a1, whose first
\* Region has no area, while a2 has an empty list of Regions
C1_Witness ==
    /\ item.kind = "testboxes"
    /\ item.rect = <<1, 0, 3, 1>>
    /\ boxes["a1"] = << <<3, 0, 3, 1>>, <<0, 0, 2, 1>> >>
    /\ boxes["a2"] = <<>>
    /\ hits = {"a1"}

----------------------------------------------------------------------------
(* Annotation.capture *)

EndsWith(s, c) == Len(s) > 0 /\ s[Len(s)] = c

\* a capture that appends the joining space after eliding the hyphen
CaptureHyphenSpace(buf, t) ==
    IF t = NL
    THEN IF EndsWith(buf, "-") THEN SubSeq(buf, 1, Len(buf) - 1) \o <<" ">>
         ELSE IF ~EndsWith(buf, " ") THEN buf \o <<" ">>
         ELSE buf
    ELSE buf \o t

\* the value of self.text after self.capture(t), buf being its value before
Capture(buf, t) ==
    IF t = NL
    THEN IF EndsWith(buf, "-") THEN SubSeq(buf, 1, Len(buf) - 1)
         ELSE IF ~EndsWith(buf, " ") THEN buf \o <<" ">>
         ELSE buf
    ELSE buf \o t

----------------------------------------------------------------------------
(* Annotation.gettext *)

\* the characters str.strip() removes
Whitespace == {" ", "\n", "\t", "\r"}

\* SUBSTITUTIONS.get(c, c), the keys named by their code points
Substitute(c) ==
    CASE c = "U+FB00" -> <<"f", "f">>
      [] c = "U+FB01" -> <<"f", "i">>
      [] c = "U+FB02" -> <<"f", "l">>
      [] c = "U+FB03" -> <<"f", "f", "i">>
      [] c = "U+FB04" -> <<"f", "f", "l">>
      [] c = "U+2018" -> <<"'">>
      [] c = "U+2019" -> <<"'">>
      [] c = "U+201C" -> <<"\"">>
      [] c = "U+201D" -> <<"\"">>
      [] c = "U+2026" -> <<".", ".", ".">>
      [] OTHER -> <<c>>

RECURSIVE LStrip(_)
LStrip(s) == IF s # <<>> /\ Head(s) \in Whitespace THEN LStrip(Tail(s)) ELSE s

RECURSIVE RStrip(_)
RStrip(s) ==
    IF s # <<>> /\ s[Len(s)] \in Whitespace THEN RStrip(SubSeq(s, 1, Len(s) - 1)) ELSE s

\* self.text.strip()
Strip(s) == RStrip(LStrip(s))

\* ''.join([SUBSTITUTIONS.get(c, c) for c in s])
RECURSIVE SubstituteAll(_)
SubstituteAll(s) == IF s = <<>> THEN <<>> ELSE Substitute(Head(s)) \o SubstituteAll(Tail(s))

\* "(XXX: missing text!)"
MissingText ==
    <<"(", "X", "X", "X", ":", " ", "m", "i", "s", "s", "i", "n", "g", " ",
      "t", "e", "x", "t", "!", ")">>

\* a gettext that does not test self.text
gettextNoSentinel(b, t) ==
    IF HasBoxes(b) THEN SubstituteAll(Strip(t)) ELSE NoneText

\* gettext of an annotation with boxes b and text t
gettext(b, t) ==
    IF HasBoxes(b)
    THEN IF t # <<>> THEN SubstituteAll(Strip(t)) ELSE MissingText
    ELSE NoneText

----------------------------------------------------------------------------
(* Direct calls of capture on one freshly constructed annotation *)

CaptureTexts == {<<"a">>, <<"-">>, <<" ">>, <<"a", "-">>, NL}

InitCapture ==
    /\ boxes = [a \in Annots |-> None]
    /\ text = [a \in Annots |-> <<>>]
    /\ item = IdleItem("none")
    /\ steps = 0
    /\ RenderIdle
    /\ PosIdle
    /\ DocIdle

CallCapture(t) ==
    /\ Len(Capture(text["a1"], t)) <= MaxLen
    /\ text' = [text EXCEPT !["a1"] = Capture(@, t)]
    /\ item' = [kind |-> "capture", rect |-> <<>>, text |-> t]
    /\ UNCHANGED <<boxes, annots, lasthit, curline, hits, steps, gotText, called, touched, pvars, dvars>>

NextCapture == \E t \in CaptureTexts : CallCapture(t)

SpecCapture == InitCapture /\ [][NextCapture]_vars

\* C2 (as claimed): capturing a line break twice in a row changes the buffer
\* at most once: the second capture of '\n' leaves the buffer as the first
\* one left it.
C2_SecondBreakIdle ==
    [][(item.kind = "capture" /\ item.text = NL /\ item'.kind = "capture" /\ item'.text = NL)
        => text'["a1"] = text["a1"]]_vars

Str_attrib == <<"a", "t", "t", "r", "i", "b", "-">>

Str_ute == <<"u", "t", "e">>

Str_attribute == <<"a", "t", "t", "r", "i", "b", "u", "t", "e">>

\* C3: on a line break a buffer ending with a hyphen loses exactly that
\* hyphen and gets nothing appended, otherwise a buffer not ending with a
\* space gets exactly one space, otherwise it is unchanged; no literal
\* newline is appended; ordinary text is appended verbatim; and "attrib-",
\* a break, "ute" give "attribute".
C3_BreakRule ==
    [][item'.kind = "capture" =>
        LET b == text["a1"]
            c == text'["a1"]
            t == item'.text
        IN  /\ t = NL /\ EndsWith(b, "-") =>
                /\ Len(c) = Len(b) - 1
                /\ \A i \in 1..Len(c) : c[i] = b[i]
            /\ t = NL /\ ~EndsWith(b, "-") /\ ~EndsWith(b, " ") => c = Append(b, " ")
            /\ t = NL /\ ~EndsWith(b, "-") /\ EndsWith(b, " ") => c = b
            /\ t = NL => \A i \in 1..Len(c) : c[i] = "\n" => (i <= Len(b) /\ b[i] = "\n")
            /\ t # NL => c = b \o t
            /\ Capture(Capture(Capture(<<>>, Str_attrib), NL), Str_ute) = Str_attribute
      ]_vars

\* a break has just elided the hyphen of "a-"
C3_Witness ==
    /\ item.kind = "capture" /\ item.text = NL
    /\ text["a1"] = <<"a">>

----------------------------------------------------------------------------
(* The walk of one page: setannots, receive_layout, then render on the     *)
(* items of the page in the order render reaches them (the children of a   *)
(* container before the container itself)                                  *)

MaxItems == 4       \* most items of the walked page

CharRects == {<<0, 0, 1, 1>>, <<1, 0, 2, 1>>, <<2, 0, 3, 1>>, <<3, 0, 3, 1>>}

BoxRects == {<<0, 0, 3, 1>>, <<0, 0, 1, 1>>, <<2, 0, 3, 1>>}

CharTexts == {<<"a">>, <<"-">>, <<LigFF>>}

AnnoTexts == {<<" ">>, NL}

InitWalk ==
    /\ \E b2 \in {None, <<>>, << <<1, 0, 3, 1>> >>} :
            boxes = [a \in Annots |-> IF a = "a1" THEN << <<0, 0, 2, 1>> >> ELSE b2]
    /\ text = [a \in Annots |-> <<>>]
    /\ item = IdleItem("none")
    /\ steps = 0
    /\ RenderIdle
    /\ PosIdle
    /\ DocIdle

\* whether a Region of annotation a and the rectangle r share some area
Overlaps(a, r) ==
    /\ HasBoxes(boxes[a])
    /\ \E i \in 1..Len(boxes[a]) : Cells(boxes[a][i]) \cap Cells(r) # {}

\* a.capture(t) for every a of S
CaptureAll(S, t) == [a \in Annots |-> IF a \in S THEN Capture(text[a], t) ELSE text[a]]

\* receive_layout, up to its call of render
ReceiveLayout ==
    /\ item.kind = "setannots"
    /\ lasthit' = {}
    /\ curline' = {}
    /\ item' = IdleItem("page")
    /\ UNCHANGED <<boxes, text, annots, hits, steps, gotText, called, touched, pvars, dvars>>

Walking == item.kind \notin {"none", "setannots"} /\ steps < MaxItems

\* render of an LTChar with rectangle r and text t
RenderChar(r, t) ==
    /\ Walking
    /\ hits' = TestBoxes(r)
    /\ lasthit' = TestBoxes(r)
    /\ curline' = curline \cup TestBoxes(r)
    /\ text' = CaptureAll(TestBoxes(r), t)
    /\ item' = [kind |-> "char", rect |-> r, text |-> t]
    /\ steps' = steps + 1
    /\ gotText' = gotText \cup TestBoxes(r)
    /\ called' = TestBoxes(r)
    /\ touched' = touched \cup {a \in Annots : Overlaps(a, r)}
    /\ UNCHANGED <<boxes, annots, pvars, dvars>>

\* render of an LTAnno that passes its text to every annotation of the line
RenderAnnoLine(t) ==
    /\ Walking
    /\ IF t = NL
       THEN /\ text' = CaptureAll(curline, NL)
            /\ curline' = {}
            /\ called' = curline
            /\ gotText' = {}
       ELSE /\ text' = CaptureAll(curline, t)
            /\ curline' = curline
            /\ called' = curline
            /\ gotText' = gotText \cup curline
    /\ item' = [kind |-> "anno", rect |-> <<>>, text |-> t]
    /\ steps' = steps + 1
    /\ UNCHANGED <<boxes, annots, lasthit, hits, touched, pvars, dvars>>

\* render of an LTAnno that forgets the last hit at a line break
RenderAnnoResetHit(t) ==
    /\ Walking
    /\ IF t = NL
       THEN /\ text' = CaptureAll(curline, NL)
            /\ curline' = {}
            /\ lasthit' = {}
            /\ called' = curline
            /\ gotText' = {}
       ELSE /\ text' = CaptureAll(lasthit, t)
            /\ curline' = curline
            /\ lasthit' = lasthit
            /\ called' = lasthit
            /\ gotText' = gotText \cup lasthit
    /\ item' = [kind |-> "anno", rect |-> <<>>, text |-> t]
    /\ steps' = steps + 1
    /\ UNCHANGED <<boxes, annots, hits, touched, pvars, dvars>>

\* render of an LTAnno with text t
RenderAnno(t) ==
    /\ Walking
    /\ IF t = NL
       THEN /\ text' = CaptureAll(curline, NL)
            /\ curline' = {}
            /\ called' = curline
            /\ gotText' = {}
       ELSE /\ text' = CaptureAll(lasthit, t)
            /\ curline' = curline
            /\ called' = lasthit
            /\ gotText' = gotText \cup lasthit
    /\ item' = [kind |-> "anno", rect |-> <<>>, text |-> t]
    /\ steps' = steps + 1
    /\ UNCHANGED <<boxes, annots, lasthit, hits, touched, pvars, dvars>>

\* render of an LTTextBox with rectangle r, its children rendered:
\* testboxes(item), then capture_newline()
RenderTextBox(r) ==
    /\ Walking
    /\ hits' = TestBoxes(r)
    /\ lasthit' = TestBoxes(r)
    /\ text' = CaptureAll(curline \cup TestBoxes(r), NL)
    /\ curline' = {}
    /\ item' = [kind |-> "textbox", rect |-> r, text |-> <<>>]
    /\ steps' = steps + 1
    /\ gotText' = {}
    /\ called' = curline \cup TestBoxes(r)
    /\ touched' = touched \cup {a \in Annots : Overlaps(a, r)}
    /\ UNCHANGED <<boxes, annots, pvars, dvars>>

\* render of another LTContainer, its children rendered
RenderContainer ==
    /\ Walking
    /\ item' = IdleItem("container")
    /\ steps' = steps + 1
    /\ called' = {}
    /\ UNCHANGED <<boxes, text, annots, lasthit, curline, hits, gotText, touched, pvars, dvars>>

NextWalk ==
    \/ SetAnnots
    \/ ReceiveLayout
    \/ \E r \in CharRects, t \in CharTexts : RenderChar(r, t)
    \/ \E t \in AnnoTexts : RenderAnno(t)
    \/ \E r \in BoxRects : RenderTextBox(r)
    \/ RenderContainer

SpecWalk == InitWalk /\ [][NextWalk]_vars

\* C4 (as claimed): when a line break event is processed, every annotation
\* that received text since the previous line break event, from a character
\* or from a positionless whitespace fragment, receives capture('\n').
C4_BreakReachesLine ==
    [][((item'.kind = "anno" /\ item'.text = NL) \/ item'.kind = "textbox")
        => gotText \subseteq called']_vars

\* the annotations whose Regions cover at least half of a rectangle that has
\* an area
Matched(r) ==
    {a \in Annots : /\ HasBoxes(boxes[a])
                    /\ Cells(r) # {}
                    /\ \E i \in 1..Len(boxes[a]) : Accepts(r, boxes[a][i])}

\* C5 (as claimed): last_hit is the set matched by the most recently
\* processed character fragment, empty before the first one: a character
\* sets it, and no other fragment or container changes it.
C5_OnlyCharsSetLastHit ==
    [][/\ item'.kind = "page" => lasthit' = {}
       /\ item'.kind = "char" => lasthit' = Matched(item'.rect)
       /\ item'.kind \in {"anno", "textbox", "container"} => lasthit' = lasthit]_vars

\* C5 (amended): last_hit is the set matched by the most recently processed
\* character fragment or text box, empty before the first one: a character
\* or a text box sets it, and no break fragment or other container changes it.
C5_LastHit ==
    [][/\ item'.kind = "page" => lasthit' = {}
       /\ item'.kind \in {"char", "textbox"} => lasthit' = Matched(item'.rect)
       /\ item'.kind \in {"anno", "container"} => lasthit' = lasthit]_vars

\* a text box matched by both annotations has set last_hit and closed their line
C5_Witness ==
    /\ item.kind = "textbox"
    /\ item.rect = <<0, 0, 3, 1>>
    /\ lasthit = {"a1", "a2"}
    /\ text = [a \in Annots |-> <<" ">>]

\* C6: a break fragment whose text is a line break applies capture('\n') to
\* exactly the annotations of current_line_hits, which is then empty; any
\* other break fragment is captured by exactly the annotations of last_hit,
\* and current_line_hits and last_hit are left unchanged.
C6_BreakFragment ==
    [][item'.kind = "anno" =>
        IF item'.text = NL
        THEN /\ called' = curline
             /\ \A a \in Annots :
                    text'[a] = IF a \in curline THEN Capture(text[a], NL) ELSE text[a]
             /\ curline' = {}
        ELSE /\ called' = lasthit
             /\ \A a \in Annots :
                    text'[a] = IF a \in lasthit THEN text[a] \o item'.text ELSE text[a]
             /\ curline' = curline
             /\ lasthit' = lasthit
      ]_vars

\* whitespace reached a1, the last hit, and not a2, which is on the line
C6_Witness ==
    /\ item.kind = "anno"
    /\ item.text = <<" ">>
    /\ lasthit = {"a1"}
    /\ curline = {"a1", "a2"}
    /\ text["a1"] = <<"a", "a", " ">>
    /\ text["a2"] = <<"a">>

\* s without its leading and trailing whitespace
Trimmed(s) ==
    LET keep == {i \in 1..Len(s) : s[i] \notin Whitespace}
    IN  IF keep = {} THEN <<>>
        ELSE SubSeq(s, CHOOSE i \in keep : \A j \in keep : i <= j,
                       CHOOSE i \in keep : \A j \in keep : i >= j)

\* C7: gettext returns the missing-text sentinel for every annotation with a
\* Region and an empty buffer, so for one whose Regions overlapped no item
\* of the walked page; for one with a Region and a non-empty buffer it
\* returns the buffer trimmed, the substitution table applied.
C7_GetText ==
    \A a \in Annots : HasBoxes(boxes[a]) =>
        /\ text[a] = <<>> => gettext(boxes[a], text[a]) = MissingText
        /\ a \notin touched => gettext(boxes[a], text[a]) = MissingText
        /\ text[a] # <<>> => gettext(boxes[a], text[a]) = SubstituteAll(Trimmed(text[a]))

\* a1 took a ligature and a line break, a2 has a Region no item overlapped
C7_Witness ==
    /\ item.kind = "anno"
    /\ text["a1"] = <<LigFF, " ">>
    /\ gettext(boxes["a1"], text["a1"]) = <<"f", "f">>
    /\ HasBoxes(boxes["a2"])
    /\ "a2" \notin touched
    /\ called = {"a1"}
    /\ gettext(boxes["a2"], text["a2"]) = MissingText

----------------------------------------------------------------------------
(* Page, Pos.__lt__ and Pos.normalise_to_mediabox.  A Page is its pageno;  *)
(* Mediabox gives its mediabox.                                            *)

Pagenos == {0, 1}

Mediabox(pageno) == IF pageno = 0 THEN <<0, 0, 100, 100>> ELSE <<20, 0, 80, 60>>

\* a normalisation that leaves the coordinates as they are
normaliseNoClamp(p) == <<p.x, p.y>>

\* self.normalise_to_mediabox()
normalise_to_mediabox(p) ==
    LET mb == Mediabox(p.page)
        x == IF p.x < mb[1] THEN mb[1] ELSE IF p.x > mb[3] THEN mb[3] ELSE p.x
        y == IF p.y < mb[2] THEN mb[2] ELSE IF p.y > mb[4] THEN mb[4] ELSE p.y
    IN  <<x, y>>

\* (nx - x0) // colwidth with colwidth = (x1 - x0) / COLUMNS_PER_PAGE
Column(nx, mb) == ((nx - mb[1]) * cols) \div (mb[3] - mb[1])

\* a comparison that lets equal heights of one column precede each other
PosLtNonStrict(s, o) ==
    IF s.page < o.page THEN TRUE
    ELSE IF s.page = o.page THEN
        LET sn == normalise_to_mediabox(s)
            on == normalise_to_mediabox(o)
            self_col == Column(sn[1], Mediabox(s.page))
            other_col == Column(on[1], Mediabox(s.page))
        IN  self_col < other_col \/ (self_col = other_col /\ sn[2] >= on[2])
    ELSE FALSE

\* s < o of two Pos objects
PosLt(s, o) ==
    IF s.page < o.page THEN TRUE
    ELSE IF s.page = o.page THEN
        LET sn == normalise_to_mediabox(s)
            on == normalise_to_mediabox(o)
            self_col == Column(sn[1], Mediabox(s.page))
            other_col == Column(on[1], Mediabox(s.page))
        IN  self_col < other_col \/ (self_col = other_col /\ sn[2] > on[2])
    ELSE FALSE

----------------------------------------------------------------------------
(* Comparisons of the positions of a document *)

XCoords == {-5, 10, 60, 85}

YCoords == {-5, 10, 50, 90}

Positions == [page : Pagenos, x : XCoords, y : YCoords]

\* nothing of a page rendered
PageIdle ==
    /\ boxes = [a \in Annots |-> None]
    /\ text = [a \in Annots |-> <<>>]
    /\ item = IdleItem("none")
    /\ steps = 0
    /\ RenderIdle

Bool(b) == IF b THEN "True" ELSE "False"

InitOrder ==
    /\ cols \in 1..MaxCols
    /\ pa \in Positions
    /\ pb \in Positions
    /\ pc \in Positions
    /\ lt = "None"
    /\ outlines = <<>>
    /\ found = -1
    /\ PageIdle
    /\ DocIdle

\* pa < pb
Compare ==
    /\ lt = "None"
    /\ lt' = Bool(PosLt(pa, pb))
    /\ UNCHANGED <<rvars, cols, pa, pb, pc, outlines, found, dvars>>

NextOrder == Compare

SpecOrder == InitOrder /\ [][NextOrder]_vars

\* neither precedes the other
Tied(p, q) == ~PosLt(p, q) /\ ~PosLt(q, p)

\* C8: for every positive column count Pos.__lt__ is a strict weak order on
\* the positions of a document: irreflexive, asymmetric, transitive, and
\* with a transitive incomparability.
C8_StrictWeakOrder ==
    /\ ~PosLt(pa, pa)
    /\ PosLt(pa, pb) => ~PosLt(pb, pa)
    /\ PosLt(pa, pb) /\ PosLt(pb, pc) => PosLt(pa, pc)
    /\ Tied(pa, pb) /\ Tied(pb, pc) => Tied(pa, pc)
    /\ lt # "None" => lt = Bool(PosLt(pa, pb))

\* three positions of one page and two columns, compared: the first in the
\* left column, the other two tied in the right one
C8_Witness ==
    /\ cols = 2
    /\ lt = "True"
    /\ pa = [page |-> 0, x |-> 10, y |-> 10]
    /\ pb = [page |-> 0, x |-> 60, y |-> 90]
    /\ pc = [page |-> 0, x |-> 85, y |-> 90]
    /\ Tied(pb, pc)

Dist(u, v) == IF u >= v THEN u - v ELSE v - u

\* v if it is within lo..hi, and else the nearer of the two edges
Nearest(v, lo, hi) ==
    IF lo <= v /\ v <= hi THEN v
    ELSE IF Dist(v, lo) <= Dist(v, hi) THEN lo ELSE hi

\* p with its coordinates moved to the nearest edges of its page
AtEdge(p) ==
    [page |-> p.page,
     x |-> Nearest(p.x, Mediabox(p.page)[1], Mediabox(p.page)[3]),
     y |-> Nearest(p.y, Mediabox(p.page)[2], Mediabox(p.page)[4])]

\* the column of a clamped x: the k with k columns of equal width, and not
\* k + 1, fitting left of it
ColumnOf(nx, mb) ==
    CHOOSE k \in 0..cols :
        /\ k * (mb[3] - mb[1]) <= (nx - mb[1]) * cols
        /\ (nx - mb[1]) * cols < (k + 1) * (mb[3] - mb[1])

Before(p, q) ==
    \/ p.page < q.page
    \/ /\ p.page = q.page
       /\ LET mb == Mediabox(p.page)
              px == Nearest(p.x, mb[1], mb[3])
              py == Nearest(p.y, mb[2], mb[4])
              qx == Nearest(q.x, mb[1], mb[3])
              qy == Nearest(q.y, mb[2], mb[4])
          IN  \/ ColumnOf(px, mb) < ColumnOf(qx, mb)
              \/ ColumnOf(px, mb) = ColumnOf(qx, mb) /\ py > qy

----------------------------------------------------------------------------
(* PrettyPrinter.nearest_outline *)

\* a scan that stops at the first entry before the position
ScanFirst(os, q, i, prev) ==
    IF i > Len(os) \/ prev # 0 THEN prev
    ELSE IF PosLt(os[i], q) THEN i ELSE prev

\* the for loop of nearest_outline from entry i on, prev being an index of
\* os or 0 for None
RECURSIVE Scan(_, _, _, _)
Scan(os, q, i, prev) ==
    IF i > Len(os) THEN prev
    ELSE IF PosLt(os[i], q) THEN Scan(os, q, i + 1, i)
    ELSE prev

\* self.nearest_outline(q) with self.outlines = os
nearest_outline(os, q) == Scan(os, q, 1, 0)

OutlineYs == {50, 70, 100}

OutlinePositions == [page : Pagenos, x : {10, 60}, y : OutlineYs]

InitOutline ==
    /\ cols \in 1..MaxCols
    /\ outlines \in UNION {[1..k -> OutlinePositions] : k \in 0..MaxOutlines}
    /\ pa \in OutlinePositions
    /\ pb = NoPos
    /\ pc = NoPos
    /\ lt = "None"
    /\ found = -1
    /\ PageIdle
    /\ DocIdle

\* self.nearest_outline(pa)
CallNearest ==
    /\ found = -1
    /\ found' = nearest_outline(outlines, pa)
    /\ UNCHANGED <<rvars, cols, pa, pb, pc, lt, outlines, dvars>>

NextOutline == CallNearest

SpecOutline == InitOutline /\ [][NextOutline]_vars

\* no entry of the list sorts before an earlier one
NonDecreasing(os) == \A i, j \in 1..Len(os) : i < j => ~PosLt(os[j], os[i])

\* the entries that sort before q
Less(os, q) == {i \in 1..Len(os) : PosLt(os[i], q)}

OutlineA == [page |-> 0, x |-> 10, y |-> 100]

OutlineB == [page |-> 0, x |-> 10, y |-> 50]

\* C10: on a list in non-decreasing order nearest_outline(q) returns the
\* last entry that sorts before q, the entry a binary search with a strict
\* less-than finds, and none when the list is empty or its first entry does
\* not sort before q; on [A at y = 100, B at y = 50] and a query at y = 70
\* of the same page it returns A.
C10_NearestOutline ==
    (found # -1 /\ NonDecreasing(outlines)) =>
        /\ Less(outlines, pa) # {} =>
              /\ found \in Less(outlines, pa)
              /\ \A i \in Less(outlines, pa) : i <= found
        /\ found = Cardinality(Less(outlines, pa))
        /\ (outlines = <<>> \/ ~PosLt(outlines[1], pa)) => found = 0
        /\ (outlines = <<OutlineA, OutlineB>> /\ pa = [page |-> 0, x |-> 10, y |-> 70])
              => found = 1

\* the list [A, B] and the query at y = 70: A, the first entry, is returned
C10_Witness ==
    /\ outlines = <<OutlineA, OutlineB>>
    /\ pa = [page |-> 0, x |-> 10, y |-> 70]
    /\ found = 1

----------------------------------------------------------------------------
(* getannots, Annotation.__init__, Annotation.getstartpos,                 *)
(* Annotation.__lt__ and the page loop of process_file.  An annotation     *)
(* record is [subtype, coords, rect]: its Subtype name, its QuadPoints and *)
(* its Rect, None where the record has none.  An Annotation is [page, n,   *)
(* rect, boxes], n being the place of its record among those of its page.  *)

MaxAnnots == 2      \* most annotation records of one page

ANNOT_SUBTYPES == {"Text", "Highlight", "Squiggly", "StrikeOut", "Underline"}

Min4(a, b, c, d) == Min(Min(a, b), Min(c, d))

Max4(a, b, c, d) == Max(Max(a, b), Max(c, d))

\* self.boxes as Annotation.__init__ builds it from coords
RECURSIVE BoxesOf(_)
BoxesOf(coords) ==
    IF coords = None THEN None
    ELSE IF coords = <<>> THEN <<>>
    ELSE << <<Min4(coords[1], coords[3], coords[5], coords[7]),
              Min4(coords[2], coords[4], coords[6], coords[8]),
              Max4(coords[1], coords[3], coords[5], coords[7]),
              Max4(coords[2], coords[4], coords[6], coords[8])>> >>
         \o BoxesOf(SubSeq(coords, 9, Len(coords)))

\* getannots(recs, page) from record i on
RECURSIVE AnnotsFrom(_, _, _)
AnnotsFrom(recs, page, i) ==
    IF i > Len(recs) THEN <<>>
    ELSE IF recs[i].subtype \notin ANNOT_SUBTYPES THEN AnnotsFrom(recs, page, i + 1)
    ELSE <<[page |-> page, n |-> i, rect |-> recs[i].rect, boxes |-> BoxesOf(recs[i].coords)]>>
         \o AnnotsFrom(recs, page, i + 1)

getannots(recs, page) == AnnotsFrom(recs, page, 1)

\* a.getstartpos(), NoPos standing for None
getstartpos(a) ==
    IF HasBoxes(a.rect)
    THEN [page |-> a.page, x |-> Min(a.rect[1], a.rect[3]), y |-> Max(a.rect[2], a.rect[4])]
    ELSE IF HasBoxes(a.boxes)
    THEN [page |-> a.page, x |-> Min(a.boxes[1][1], a.boxes[1][3]),
                           y |-> Max(a.boxes[1][2], a.boxes[1][4])]
    ELSE NoPos

\* a < b of two Annotations that have a start position
AnnotLt(a, b) == PosLt(getstartpos(a), getstartpos(b))

\* list.sort() compares every element of a list of two or more, and the
\* comparison raises when a start position is None
SortRaises(l) == Len(l) >= 2 /\ \E i \in 1..Len(l) : getstartpos(l[i]) = NoPos

\* a inserted into the sorted list l after the elements it does not precede
RECURSIVE Insert(_, _)
Insert(l, a) ==
    IF l = <<>> THEN <<a>>
    ELSE IF AnnotLt(a, l[Len(l)]) THEN Insert(SubSeq(l, 1, Len(l) - 1), a) \o <<l[Len(l)]>>
    ELSE l \o <<a>>

\* a sort that leaves the list as it is
SortedKeep(l) == l

\* l after l.sort(), when no comparison raises
RECURSIVE Sorted(_)
Sorted(l) == IF Len(l) <= 1 THEN l ELSE Insert(Sorted(SubSeq(l, 1, Len(l) - 1)), l[Len(l)])

\* the records a page of the model may hold: a point annotation, a
\* highlight with QuadPoints only, a highlight with QuadPoints and a Rect
\* that start at different places, a record with neither, and a link
RecordKinds ==
    { [subtype |-> "Text", coords |-> None, rect |-> <<30, 40, 40, 50>>],
      [subtype |-> "Highlight", coords |-> <<60, 80, 85, 80, 60, 90, 85, 90>>, rect |-> None],
      [subtype |-> "Highlight", coords |-> <<30, 10, 40, 10, 30, 20, 40, 20>>,
       rect |-> <<30, 60, 40, 70>>],
      [subtype |-> "Text", coords |-> None, rect |-> None],
      [subtype |-> "Link", coords |-> None, rect |-> <<60, 40, 85, 50>>] }

RecordLists == UNION {[1..n -> RecordKinds] : n \in 0..MaxAnnots}

\* the values of COLUMNS_PER_PAGE and of pagerange (empty: every page)
FileCols == {1, 2}

PageRanges == {{}, {2}}

LastPage == 1

InitFile ==
    /\ PageIdle
    /\ cols \in FileCols
    /\ pa = NoPos
    /\ pb = NoPos
    /\ pc = NoPos
    /\ lt = "None"
    /\ outlines = <<>>
    /\ found = NoPos
    /\ contents = [a \in Annots |-> NoneText]
    /\ fmt = [annot |-> "None", result |-> "None"]
    /\ pagerange \in PageRanges
    /\ pdfannots \in [Pagenos -> RecordLists]
    /\ pageannots = [p \in Pagenos |-> <<>>]
    /\ allannots = <<>>
    /\ nextpage = 0
    /\ status = "running"

FileUnchanged == UNCHANGED <<rvars, pvars, contents, fmt, pagerange, pdfannots>>

\* a page outside pagerange is passed over
SkipPage ==
    /\ status = "running"
    /\ nextpage <= LastPage
    /\ pagerange # {} /\ (nextpage + 1) \notin pagerange
    /\ nextpage' = nextpage + 1
    /\ UNCHANGED <<pageannots, allannots, status>>
    /\ FileUnchanged

\* a page without annotation records keeps its empty list
EmptyPage ==
    /\ status = "running"
    /\ nextpage <= LastPage
    /\ pagerange = {} \/ (nextpage + 1) \in pagerange
    /\ pdfannots[nextpage] = <<>>
    /\ nextpage' = nextpage + 1
    /\ UNCHANGED <<pageannots, allannots, status>>
    /\ FileUnchanged

\* getannots, sort, and extend of a page whose sort completes
ProcessPage ==
    /\ status = "running"
    /\ nextpage <= LastPage
    /\ pagerange = {} \/ (nextpage + 1) \in pagerange
    /\ pdfannots[nextpage] # <<>>
    /\ ~SortRaises(getannots(pdfannots[nextpage], nextpage))
    /\ pageannots' = [pageannots EXCEPT ![nextpage] = Sorted(getannots(pdfannots[nextpage], nextpage))]
    /\ allannots' = allannots \o pageannots'[nextpage]
    /\ nextpage' = nextpage + 1
    /\ UNCHANGED status
    /\ FileUnchanged

\* getannots and a sort that raises: process_file ends with the exception
SortFails ==
    /\ status = "running"
    /\ nextpage <= LastPage
    /\ pagerange = {} \/ (nextpage + 1) \in pagerange
    /\ pdfannots[nextpage] # <<>>
    /\ SortRaises(getannots(pdfannots[nextpage], nextpage))
    /\ pageannots' = [pageannots EXCEPT ![nextpage] = getannots(pdfannots[nextpage], nextpage)]
    /\ status' = "TypeError"
    /\ UNCHANGED <<allannots, nextpage>>
    /\ FileUnchanged

\* the loop is over: process_file returns allannots
Return ==
    /\ status = "running"
    /\ nextpage > LastPage
    /\ status' = "returned"
    /\ UNCHANGED <<pageannots, allannots, nextpage>>
    /\ FileUnchanged

NextFile == SkipPage \/ EmptyPage \/ ProcessPage \/ SortFails \/ Return

SpecFile == InitFile /\ [][NextFile]_vars

\* the pages process_file has built and filled
Processed == {p \in Pagenos : p < nextpage /\ (pagerange = {} \/ (p + 1) \in pagerange)}

\* the places in allannots of the annotation made from record n of page p
PlacesOf(p, n) == {k \in 1..Len(allannots) : allannots[k].page = p /\ allannots[k].n = n}

HasPos(a) == getstartpos(a) # NoPos

\* C11: the list process_file returns is in document order: pages ascend,
\* no later element sorts strictly before an earlier one under the position
\* order, and the annotation of every supported record of every processed
\* page is in the list exactly once, nothing else being in it.
C11_DocumentOrder ==
    status = "returned" =>
        /\ \A i, j \in 1..Len(allannots) :
               i < j => /\ allannots[i].page <= allannots[j].page
                        /\ (HasPos(allannots[i]) /\ HasPos(allannots[j]))
                               => ~AnnotLt(allannots[j], allannots[i])
        /\ \A p \in Processed : \A n \in 1..Len(pdfannots[p]) :
               Cardinality(PlacesOf(p, n))
                   = IF pdfannots[p][n].subtype \in ANNOT_SUBTYPES THEN 1 ELSE 0
        /\ \A k \in 1..Len(allannots) :
               /\ allannots[k].page \in Processed
               /\ allannots[k].n \in 1..Len(pdfannots[allannots[k].page])

\* a returned list that holds annotations of both pages, the sort having
\* moved a record of the first page before one that precedes it in the file
C11_Witness ==
    /\ status = "returned"
    /\ Len(allannots) >= 3
    /\ allannots[1].page = 0 /\ allannots[2].page = 0
    /\ allannots[1].n > allannots[2].n
    /\ AnnotLt(allannots[1], allannots[2])
    /\ allannots[Len(allannots)].page = 1

\* C12: a record with neither QuadPoints nor a Rect is dropped and
\* processing continues: no page list holds an annotation without a start
\* position, and sorting the annotations of a page never raises, whatever
\* the other records of the page are.
C12_UnresolvedDropped ==
    /\ status # "TypeError"
    /\ \A p \in Pagenos : \A k \in 1..Len(pageannots[p]) : HasPos(pageannots[p][k])

----------------------------------------------------------------------------
(* PrettyPrinter.format_annot, up to its assertion, called on an           *)
(* annotation of a walked page                                             *)

\* the contents of an annotation after Annotation.__init__: None, a
\* comment, or a comment that is a lone line break
CommentTexts == {NoneText, <<"c">>, NL}

\* s.splitlines(), for the line boundary "\n"
RECURSIVE SplitFrom(_, _)
SplitFrom(s, line) ==
    IF s = <<>> THEN (IF line = <<>> THEN <<>> ELSE <<line>>)
    ELSE IF Head(s) = "\n" THEN <<line>> \o SplitFrom(Tail(s), <<>>)
    ELSE SplitFrom(Tail(s), Append(line, Head(s)))

splitlines(s) == SplitFrom(s, <<>>)

IsLine(l) == l # <<>>

\* [l for l in s.splitlines() if l]
Paragraphs(s) == SelectSeq(splitlines(s), IsLine)

\* text of format_annot, rawtext being annot.gettext()
FormatText(rawtext) ==
    IF rawtext # NoneText /\ rawtext # <<>> THEN Paragraphs(Strip(rawtext)) ELSE <<>>

\* comment of format_annot
FormatComment(c) == IF c # NoneText /\ c # <<>> THEN Paragraphs(c) ELSE <<>>

InitRender ==
    /\ \E b2 \in {None, <<>>, << <<1, 0, 3, 1>> >>} :
            boxes = [a \in Annots |-> IF a = "a1" THEN << <<0, 0, 2, 1>> >> ELSE b2]
    /\ text = [a \in Annots |-> <<>>]
    /\ item = IdleItem("none")
    /\ steps = 0
    /\ RenderIdle
    /\ PosIdle
    /\ \E c \in CommentTexts : contents = [a \in Annots |-> IF a = "a1" THEN c ELSE NoneText]
    /\ fmt = [annot |-> "None", result |-> "None"]
    /\ pagerange = {}
    /\ pdfannots = <<>>
    /\ pageannots = <<>>
    /\ allannots = <<>>
    /\ nextpage = 0
    /\ status = "None"

\* format_annot(a) after the walk of the page of a, up to assert text or comment
FormatAnnot(a) ==
    /\ item.kind \notin {"none", "setannots"}
    /\ fmt.annot = "None"
    /\ fmt' = [annot |-> a,
               result |-> IF FormatText(gettext(boxes[a], text[a])) # <<>>
                             \/ FormatComment(contents[a]) # <<>>
                          THEN "formatted" ELSE "AssertionError"]
    /\ UNCHANGED <<rvars, pvars, contents, pagerange, pdfannots, pageannots, allannots,
                   nextpage, status>>

\* the walk goes on until format_annot is called
NextRender ==
    \/ fmt.annot = "None" /\ SetAnnots
    \/ fmt.annot = "None" /\ ReceiveLayout
    \/ fmt.annot = "None" /\ \E r \in CharRects, t \in CharTexts : RenderChar(r, t)
    \/ fmt.annot = "None" /\ \E t \in AnnoTexts : RenderAnno(t)
    \/ fmt.annot = "None" /\ \E r \in BoxRects : RenderTextBox(r)
    \/ fmt.annot = "None" /\ RenderContainer
    \/ \E a \in Annots : FormatAnnot(a)

SpecRender == InitRender /\ [][NextRender]_vars

\* C13: format_annot never fails on an annotation that has Regions: after
\* any fragment stream has been walked on its page, the assertion that the
\* annotation has text or a comment holds, also when there is no comment.
C13_AssertionHolds ==
    (fmt.annot # "None" /\ HasBoxes(boxes[fmt.annot])) => fmt.result # "AssertionError"

============================================================================
